---- MODULE Spec2Model ----
(***************************************************************************)
(* Streaming generation subsystem of inkflow: the StreamGenerationManager  *)
(* (app/services/stream_manager.py), the two tasks that drive it (the      *)
(* streaming endpoint of app/api/v1/chapters.py and the background task of *)
(* app/services/chapter_generator.py under managed_stream_generation), the *)
(* Redis cache entry of one chapter, the chapter row and its option rows   *)
(* in PostgreSQL, and the relay stream_to_client that polls them.          *)
(*                                                                         *)
(* One chapter is modelled.  Every step is the code between two awaits     *)
(* that reach Redis or PostgreSQL, so tasks interleave exactly where the   *)
(* asyncio event loop lets them.  Text is a sequence of characters; the    *)
(* i-th character ever produced is the number i, so a gap or an overlap in *)
(* what a reader receives is visible as a wrong sequence.                  *)
(***************************************************************************)
EXTENDS Integers, Sequences, FiniteSets, TLC

VARIABLES
    chapter,   \* the chapter row (app/models/chapter.py)
    options,   \* the option rows of the chapter (app/models/option.py)
    cache,     \* the Redis key chapter:generating:{chapter_id}
    mgr,       \* per manager: the StreamGenerationManager and its task
    relay,     \* per relay: the locals of one stream_to_client generator
    rc,        \* per reconnect: the locals of one reconnect_stream generator
    faults     \* Redis / PostgreSQL failures injected so far

vars == <<chapter, options, cache, mgr, relay, rc, faults>>

\* ------------------------------------------------------------------ bounds

\* Longest text a session produces.
MaxLen == 3
\* Redis / PostgreSQL operations that may fail in one behaviour.
MaxFaults == 2
\* MAX_NO_UPDATE of stream_to_client (600 polls in the source), scaled.
MAX_NO_UPDATE == 3

\* ------------------------------------------------------------ constants

\* chunk_size of reconnect_stream (5 characters in the source), scaled.
chunk_size == 2

\* novel_id * 1000 + chapter_number: chapter 1 of novel 1.
CHAPTER_ID == 1001

\* timedelta(minutes=10) of create_resume_token.
RESUME_TOKEN_MINUTES == 10

Managers == {1, 2}
Relays == {1, 2}
Reconnects == {1}

GENERATING == "generating"
COMPLETED == "completed"
FAILED == "failed"
Terminal == {COMPLETED, FAILED}

Drivers == {"stream", "background", "direct"}
Titles == {"T"}
OptionLists == {<<>>, <<"x">>, <<"x", "y">>, <<"y", "x">>}

\* --------------------------------------------------------------- helpers

Min(a, b) == IF a < b THEN a ELSE b

\* chunk: the next n characters after a text of length from.
RECURSIVE Chunk(_, _)
Chunk(from, n) == IF n = 0 THEN <<>> ELSE Append(Chunk(from, n - 1), from + n)

\* s[k:] of Python, k >= 0.
Slice(s, k) == SubSeq(s, k + 1, Len(s))

IsPrefix(s, t) == Len(s) <= Len(t) /\ SubSeq(t, 1, Len(s)) = s

\* The fragments the producer may yield after a text of length n.
Chunks(n) == {Chunk(n, k) : k \in 1..Min(2, MaxLen - n)}

\* The final contents a completion payload may carry after the text buf.
FinalContents(buf) ==
    {buf} \cup (IF Len(buf) < MaxLen THEN {buf \o Chunk(Len(buf), 1)} ELSE {})

\* Outcomes of one Redis / PostgreSQL operation: TRUE it succeeds, FALSE it raises.
Outcomes == IF faults < MaxFaults THEN {TRUE, FALSE} ELSE {TRUE}

Fault(ok) == faults' = IF ok THEN faults ELSE faults + 1

calculate_option_id(chapter_id, option_order) == chapter_id * 10 + option_order

\* The rows create_chapter_options adds for options_data.
OptionRows(options_data) ==
    {[id |-> calculate_option_id(CHAPTER_ID, i), option_order |-> i,
      option_text |-> options_data[i]] : i \in 1..Len(options_data)}

\* No entry under chapter:generating:{chapter_id} and no status flag under
\* chapter:status:{chapter_id} (session_id 0 and status "": none).
AbsentEntry ==
    [present |-> FALSE, session_id |-> 0, title |-> "", content |-> <<>>,
     content_length |-> 0, status |-> ""]

\* ChapterCacheService.set_generating_content(chapter_id, title, content) of
\* the manager's session: the entry is overwritten whole; it carries the
\* session's id, the title, the content and its length, and the status flag
\* is set to GENERATING.
CacheSet(session_id, title, content) ==
    [present |-> TRUE, session_id |-> session_id, title |-> title,
     content |-> content, content_length |-> Len(content), status |-> "generating"]

\* ChapterCacheService.delete_generating_content(chapter_id): the entry and
\* the status flag are cleared.
CacheDelete == AbsentEntry

\* ChapterService.update_chapter_status(chapter_id, status, session_id=...)
update_chapter_status(row, status, session_id) ==
    [row EXCEPT !.status = status,
                !.session_id = IF session_id = 0 THEN @ ELSE session_id]

\* ChapterService.update_chapter_content(chapter_id, content, content_length)
update_chapter_content(row, content, content_length) ==
    [row EXCEPT !.content = content, !.content_length = content_length]


\* ----------------------------------------------------------------- tokens

Users == {1, 2}
Novels == {1, 2}

\* The request times of the model, in minutes after the token was issued.
Times == {0, RESUME_TOKEN_MINUTES, RESUME_TOKEN_MINUTES + 1}

required_fields == {"chapter_id", "session_id", "novel_id", "user_id", "sent_length"}

\* A JWT: signed is whether its signature verifies under SECRET_KEY, payload
\* its claims.
Jwt(signed, payload) == [signed |-> signed, payload |-> payload]

\* The function f without the argument x.
Without(f, x) == [y \in DOMAIN f \ {x} |-> f[y]]

\* create_resume_token at time utcnow.
create_resume_token(chapter_id, session_id, novel_id, user_id, sent_length, utcnow) ==
    Jwt(TRUE, [chapter_id |-> chapter_id, session_id |-> session_id,
               novel_id |-> novel_id, user_id |-> user_id,
               sent_length |-> sent_length, type |-> "resume", iat |-> utcnow,
               exp |-> utcnow + RESUME_TOKEN_MINUTES])

\* create_access_token(data, expires_delta) at time utcnow.
create_access_token(data, expires_delta, utcnow) ==
    Jwt(TRUE, [k \in DOMAIN data \cup {"exp"} |->
                 IF k = "exp" THEN utcnow + expires_delta ELSE data[k]])

\* create_refresh_token(data) at time utcnow, with the days it is valid.
create_refresh_token(data, days, utcnow) ==
    Jwt(TRUE, [k \in DOMAIN data \cup {"exp", "type"} |->
                 IF k = "exp" THEN utcnow + days
                 ELSE IF k = "type" THEN "refresh" ELSE data[k]])

\* None of Python.
None == [k \in {} |-> 0]

\* verify_resume_token without the check of the token's type.
verify_resume_token_untyped(token, now) ==
    IF ~token.signed THEN None
    ELSE IF "exp" \in DOMAIN token.payload /\ token.payload.exp < now THEN None
    ELSE IF ~(required_fields \subseteq DOMAIN token.payload) THEN None
    ELSE token.payload

\* verify_resume_token at time now: jwt.decode raises JWTError on a bad
\* signature and ExpiredSignatureError when exp is in the past; then the
\* type and the required fields.
verify_resume_token(token, now) ==
    IF ~token.signed THEN None
    ELSE IF "exp" \in DOMAIN token.payload /\ token.payload.exp < now THEN None
    ELSE IF "type" \notin DOMAIN token.payload \/ token.payload.type # "resume" THEN None
    ELSE IF ~(required_fields \subseteq DOMAIN token.payload) THEN None
    ELSE token.payload

\* The tokens a client may present: the resume token the generate endpoint
\* issued at time 0 for session 1 of the chapter, user_id and novel_id; the
\* same with a signature that does not verify, with another type, or with one
\* required field removed; and an access token and a refresh token of the user.
Tokens ==
    UNION {LET t == create_resume_token(CHAPTER_ID, 1, novel_id, user_id, 0, 0) IN
           {t, Jwt(FALSE, t.payload), Jwt(TRUE, [t.payload EXCEPT !.type = "refresh"]),
            create_access_token([sub |-> user_id], RESUME_TOKEN_MINUTES, 0),
            create_refresh_token([sub |-> user_id], RESUME_TOKEN_MINUTES, 0)}
           \cup {Jwt(TRUE, Without(t.payload, field)) : field \in required_fields}
           : user_id \in Users, novel_id \in Novels}


\* ------------------------------------------------------------------ state

\* The row create_chapter_with_summary inserts: content "", the column
\* defaults of the model for status, content_length and session_id (0: NULL).
NewChapter(title) ==
    [title |-> title, content |-> <<>>, content_length |-> 0,
     status |-> COMPLETED, session_id |-> 0]

\* StreamGenerationManager.__init__ and the task that owns it.  driver is the
\* caller: the streaming endpoint, the background task inside
\* managed_stream_generation, or a direct caller of the public methods.
\* exit is how the task ended; raised is whether the last direct call raised;
\* start_done: start_generation has returned; term_done: complete_generation
\* or fail_generation has returned since the last start; producer_failed: the
\* producer failed after some text was appended; appended: the concatenation
\* of the chunks given to append_chunk; propagated: the exception that leaves
\* managed_stream_generation ("original": the one raised in its body,
\* "cleanup": one raised by its fail_generation call, "none": none);
\* resume_token: the token the endpoint has sent to the client (None: none).
NewManager(driver, pc) ==
    [driver |-> driver, pc |-> pc, started |-> FALSE, title |-> "",
     content_buffer |-> <<>>, content_length |-> 0, sync_due |-> TRUE,
     opts |-> <<>>, raised |-> FALSE, exit |-> "none",
     start_done |-> FALSE, term_done |-> FALSE, producer_failed |-> FALSE,
     appended |-> <<>>, propagated |-> "none", resume_token |-> None]

\* The locals of stream_to_client, and what it has yielded so far: sent is the
\* concatenation of its content deltas, last_read the cache content it last
\* read, summaries and terminals count its summary and complete/error events,
\* terminal is how it ended, complete_content and complete_options are the
\* payload of its complete event, polled is whether it entered the polling
\* loop, idle the polls in a row that produced no delta.
NewRelay(pc) ==
    [pc |-> pc, last_content_length |-> 0, no_update_count |-> 0,
     title_sent |-> FALSE, sent |-> <<>>, last_read |-> <<>>,
     summaries |-> 0, terminals |-> 0, terminal |-> "none",
     complete_content |-> <<>>, complete_options |-> {}, polled |-> FALSE,
     idle |-> 0]

\* The locals of reconnect_stream for a resume token of session
\* token_session_id carrying sent_length, and what it has yielded: chunks are
\* the texts of its content events in order; source is where it read the
\* content ("cache" or "store"); diff is whether it took the branch that sends
\* a difference; outcome is its last event (complete, generating or error);
\* complete_content and complete_options are the payload of its complete event;
\* error is the reason of its error event; current_session is the session id
\* it compared the token with; request is the HTTP request (resume_token,
\* current_user_id, novel_id and the time it arrives; empty when the model
\* starts after the token checks) and http the status code of the response
\* (0: none yet).
NewReconnect(pc, token_session_id, sent_length) ==
    [pc |-> pc, token_session_id |-> token_session_id, sent_length |-> sent_length,
     current_content |-> <<>>, current_length |-> 0, source |-> "none",
     current_session |-> 0, diff |-> FALSE, chunks |-> <<>>,
     outcome |-> "none", error |-> "none",
     complete_content |-> <<>>, complete_options |-> {},
     request |-> <<>>, http |-> 0]

StartPc(driver) == IF driver = "direct" THEN "ready" ELSE "init"

\* ms: the managers that run, each with a driver of ds; rs: the relays that
\* run; f: the failures already spent.  ts: the sessions whose resume token a reconnect may carry (0: the
\* reconnect does not run) and ks: the sent_length it may carry.
InitBase(ms, ds, rs, f) ==
    /\ chapter = NewChapter("T")
    /\ options = {}
    /\ cache = AbsentEntry
    /\ mgr \in {g \in [Managers -> {NewManager(d, p) : d \in Drivers, p \in {"off", "init", "ready"}}] :
                  \A m \in Managers :
                      IF m \in ms THEN g[m].driver \in ds /\ g[m].pc = StartPc(g[m].driver)
                      ELSE g[m] = NewManager("direct", "off")}
    /\ relay = [r \in Relays |-> IF r \in rs THEN NewRelay("init") ELSE NewRelay("off")]
    /\ faults = f

InitWith(ms, ds, rs, ts, ks, f) ==
    /\ InitBase(ms, ds, rs, f)
    /\ rc \in [Reconnects ->
                 {v \in {NewReconnect(IF s = 0 THEN "off" ELSE "init", s, k) :
                            s \in ts, k \in ks} :
                    v.token_session_id = 0 => v.sent_length = 0}]

Tasks == {"stream", "background"}

\* One generating task and one relay.
Init == InitWith({1}, Tasks, {1}, {0}, {0}, 0)

\* ---------------------------------------------------------------- manager

\* managed_stream_generation letting the exception of its fail_generation
\* call leave the scope in place of the one it caught.
Reraised_cleanup(g, cleanup_ok) ==
    [g EXCEPT !.pc = "done",
              !.propagated = IF g.driver # "background" THEN "none"
                             ELSE IF cleanup_ok THEN "original" ELSE "cleanup"]

\* The except clause of the task ends after its fail_generation call, which
\* returned (cleanup_ok) or raised and was logged: managed_stream_generation
\* re-raises the exception it caught (lines 427-435); the streaming endpoint
\* yields an error event and raises nothing (chapters.py 148-157).
Reraised(g, cleanup_ok) ==
    [g EXCEPT !.pc = "done",
              !.propagated = IF g.driver = "background" THEN "original" ELSE "none"]

\* A manager method raised.  The streaming endpoint (except Exception, lines
\* 148-155) and managed_stream_generation (lines 427-435) call fail_generation,
\* which returns at once when the generation was not started; a direct caller
\* receives the exception.
Raised(g) ==
    IF g.driver = "direct" THEN [g EXCEPT !.pc = "ready", !.raised = TRUE]
    ELSE IF g.started THEN [g EXCEPT !.pc = "fail_status", !.exit = "raised"]
    ELSE Reraised([g EXCEPT !.exit = "raised"], TRUE)

\* A manager method returned normally.
Returned(g) ==
    IF g.driver = "direct" THEN [g EXCEPT !.pc = "ready", !.raised = FALSE]
    ELSE [g EXCEPT !.pc = "loop"]

\* The task has nothing left to do after a completion payload or an error
\* event: the producer ends after either.
Finished(g) ==
    IF g.driver = "direct" THEN [g EXCEPT !.pc = "ready", !.raised = FALSE]
    ELSE [g EXCEPT !.pc = "done", !.exit = "returned"]

CanCall(m) ==
    \/ mgr[m].driver = "direct" /\ mgr[m].pc = "ready"
    \/ mgr[m].driver # "direct" /\ mgr[m].pc = "loop"

\* The summary stage fails before start_generation: the wrapper's
\* fail_generation finds _generation_started false and returns.
summary_failed(m) ==
    /\ mgr[m].pc = "init"
    /\ mgr' = [mgr EXCEPT ![m] = Raised(@)]
    /\ UNCHANGED <<chapter, options, cache, relay, rc, faults>>

\* start_generation, lines 81-89: title, _generation_started, cache entry.
start_generation(m) ==
    /\ \/ mgr[m].pc = "init"
       \/ mgr[m].driver = "direct" /\ mgr[m].pc = "ready"
    /\ \E title \in Titles, ok \in Outcomes :
        LET g == [mgr[m] EXCEPT !.title = title, !.started = TRUE, !.raised = FALSE,
                                !.term_done = FALSE] IN
        /\ Fault(ok)
        /\ cache' = IF ok THEN CacheSet(m, title, <<>>) ELSE cache
        /\ mgr' = [mgr EXCEPT ![m] = IF ok THEN [g EXCEPT !.pc = "start_title"] ELSE Raised(g)]
    /\ UNCHANGED <<chapter, options, relay, rc>>

\* start_generation, lines 95-101: chapter.title = title; commit.
start_generation_title(m) ==
    /\ mgr[m].pc = "start_title"
    /\ \E ok \in Outcomes :
        /\ Fault(ok)
        /\ chapter' = IF ok THEN [chapter EXCEPT !.title = mgr[m].title] ELSE chapter
        /\ mgr' = [mgr EXCEPT ![m] = IF ok THEN [@ EXCEPT !.pc = "start_status"] ELSE Raised(@)]
    /\ UNCHANGED <<options, cache, relay, rc>>

\* resume_token_event issuing a token that carries sent_length 1.
resume_token_event_one(g, session_id) ==
    IF g.driver = "stream"
    THEN [g EXCEPT !.resume_token = create_resume_token(CHAPTER_ID, session_id, 1, 1, 1, 0)]
    ELSE g

\* The streaming endpoint, once start_generation has returned, creates the
\* resume token of the session with sent_length=0 and yields it (chapters.py
\* 109-119 and 228-238); the background task issues none.  The novel and
\* the user are 1, the time of issue 0.
resume_token_event(g, session_id) ==
    IF g.driver = "stream"
    THEN [g EXCEPT !.resume_token = create_resume_token(CHAPTER_ID, session_id, 1, 1, 0, 0)]
    ELSE g

\* start_generation, lines 104-109: status GENERATING with the session id.
start_generation_status(m) ==
    /\ mgr[m].pc = "start_status"
    /\ \E ok \in Outcomes :
        /\ Fault(ok)
        /\ chapter' = IF ok THEN update_chapter_status(chapter, GENERATING, m) ELSE chapter
        /\ mgr' = [mgr EXCEPT ![m] =
                     IF ok THEN resume_token_event(Returned([@ EXCEPT !.start_done = TRUE]), m)
                     ELSE Raised(@)]
    /\ UNCHANGED <<options, cache, relay, rc>>

\* asyncio's clock passes SYNC_INTERVAL since _last_sync_time.
sync_interval_elapsed(m) ==
    /\ mgr[m].pc \notin {"off", "done"}
    /\ ~mgr[m].sync_due
    /\ mgr' = [mgr EXCEPT ![m].sync_due = TRUE]
    /\ UNCHANGED <<chapter, options, cache, relay, rc, faults>>

\* append_chunk writing only the new chunk to the cache (a delta).
append_chunk_delta(m) ==
    /\ CanCall(m)
    /\ IF ~mgr[m].started
       THEN /\ mgr' = [mgr EXCEPT ![m] = Raised(@)]
            /\ UNCHANGED <<cache, faults>>
       ELSE \E chunk \in Chunks(Len(mgr[m].content_buffer)), ok \in Outcomes :
            LET g == [mgr[m] EXCEPT !.content_buffer = @ \o chunk,
                                    !.content_length = @ + Len(chunk),
                                    !.appended = @ \o chunk,
                                    !.raised = FALSE] IN
            /\ Fault(ok)
            /\ cache' = IF ok THEN CacheSet(m, g.title, chunk) ELSE cache
            /\ mgr' = [mgr EXCEPT ![m] =
                         IF ~ok THEN Raised(g)
                         ELSE IF g.sync_due THEN [g EXCEPT !.pc = "append_sync"]
                         ELSE Returned(g)]
    /\ UNCHANGED <<chapter, options, relay, rc>>

\* append_chunk, lines 123-138: the buffer grows, the cache entry is
\* overwritten with the whole buffer, then the flush is due or not.
append_chunk(m) ==
    /\ CanCall(m)
    /\ IF ~mgr[m].started
       THEN /\ mgr' = [mgr EXCEPT ![m] = Raised(@)]
            /\ UNCHANGED <<cache, faults>>
       ELSE \E chunk \in Chunks(Len(mgr[m].content_buffer)), ok \in Outcomes :
            LET g == [mgr[m] EXCEPT !.content_buffer = @ \o chunk,
                                    !.content_length = @ + Len(chunk),
                                    !.appended = @ \o chunk,
                                    !.raised = FALSE] IN
            /\ Fault(ok)
            /\ cache' = IF ok THEN CacheSet(m, g.title, g.content_buffer) ELSE cache
            /\ mgr' = [mgr EXCEPT ![m] =
                         IF ~ok THEN Raised(g)
                         ELSE IF g.sync_due THEN [g EXCEPT !.pc = "append_sync"]
                         ELSE Returned(g)]
    /\ UNCHANGED <<chapter, options, relay, rc>>

\* _sync_to_postgresql with a failed write logged and not raised, and
\* _last_sync_time advanced all the same.
sync_to_postgresql_swallowed(m) ==
    /\ mgr[m].pc = "append_sync"
    /\ \E ok \in Outcomes :
        /\ Fault(ok)
        /\ chapter' = IF ok THEN update_chapter_content(chapter, mgr[m].content_buffer,
                                                        mgr[m].content_length)
                      ELSE chapter
        /\ mgr' = [mgr EXCEPT ![m] = Returned([@ EXCEPT !.sync_due = FALSE])]
    /\ UNCHANGED <<options, cache, relay, rc>>

\* append_chunk line 139-140 and _sync_to_postgresql, lines 149-163.
sync_to_postgresql(m) ==
    /\ mgr[m].pc = "append_sync"
    /\ \E ok \in Outcomes :
        /\ Fault(ok)
        /\ chapter' = IF ok THEN update_chapter_content(chapter, mgr[m].content_buffer,
                                                        mgr[m].content_length)
                      ELSE chapter
        /\ mgr' = [mgr EXCEPT ![m] =
                     IF ok THEN Returned([@ EXCEPT !.sync_due = FALSE]) ELSE Raised(@)]
    /\ UNCHANGED <<options, cache, relay, rc>>

\* complete_generation with status COMPLETED committed together with the
\* content, before the options are created.
complete_generation_status_first(m) ==
    /\ CanCall(m)
    /\ IF ~mgr[m].started
       THEN /\ mgr' = [mgr EXCEPT ![m] = Raised(@)]
            /\ UNCHANGED <<chapter, faults>>
       ELSE \E final \in FinalContents(mgr[m].content_buffer), opts \in OptionLists,
               ok \in Outcomes :
            LET g == [mgr[m] EXCEPT !.content_buffer = final,
                                    !.content_length = Len(final),
                                    !.opts = opts, !.raised = FALSE] IN
            /\ Fault(ok)
            /\ chapter' = IF ok THEN [chapter EXCEPT !.content = final,
                                                     !.content_length = g.content_length,
                                                     !.status = COMPLETED]
                          ELSE chapter
            /\ mgr' = [mgr EXCEPT ![m] =
                         IF ok THEN [g EXCEPT !.pc = "complete_options"]
                         ELSE Raised([g EXCEPT !.opts = <<>>])]
    /\ UNCHANGED <<options, cache, relay, rc>>

\* complete_generation writing the content without content_length.
complete_generation_no_length(m) ==
    /\ CanCall(m)
    /\ IF ~mgr[m].started
       THEN /\ mgr' = [mgr EXCEPT ![m] = Raised(@)]
            /\ UNCHANGED <<chapter, faults>>
       ELSE \E final \in FinalContents(mgr[m].content_buffer), opts \in OptionLists,
               ok \in Outcomes :
            LET g == [mgr[m] EXCEPT !.content_buffer = final,
                                    !.content_length = Len(final),
                                    !.opts = opts, !.raised = FALSE] IN
            /\ Fault(ok)
            /\ chapter' = IF ok THEN [chapter EXCEPT !.content = final]
                          ELSE chapter
            /\ mgr' = [mgr EXCEPT ![m] =
                         IF ok THEN [g EXCEPT !.pc = "complete_options"]
                         ELSE Raised([g EXCEPT !.opts = <<>>])]
    /\ UNCHANGED <<options, cache, relay, rc>>

\* complete_generation, lines 183-203: the buffer becomes final_content, the
\* row's content and content_length are written and committed.
complete_generation(m) ==
    /\ CanCall(m)
    /\ IF ~mgr[m].started
       THEN /\ mgr' = [mgr EXCEPT ![m] = Raised(@)]
            /\ UNCHANGED <<chapter, faults>>
       ELSE \E final \in FinalContents(mgr[m].content_buffer), opts \in OptionLists,
               ok \in Outcomes :
            LET g == [mgr[m] EXCEPT !.content_buffer = final,
                                    !.content_length = Len(final),
                                    !.opts = opts, !.raised = FALSE] IN
            /\ Fault(ok)
            /\ chapter' = IF ok THEN [chapter EXCEPT !.content = final,
                                                     !.content_length = g.content_length]
                          ELSE chapter
            /\ mgr' = [mgr EXCEPT ![m] =
                         IF ok THEN [g EXCEPT !.pc = "complete_options"]
                         ELSE Raised([g EXCEPT !.opts = <<>>])]
    /\ UNCHANGED <<options, cache, relay, rc>>

\* create_chapter_options keeping only the first of the rows.
create_chapter_options_first(m) ==
    /\ mgr[m].pc = "complete_options"
    /\ \E ok \in Outcomes :
        LET rows == {row \in OptionRows(mgr[m].opts) : row.option_order = 1}
            clash == \E a \in rows, b \in options : a.id = b.id
            good == ok /\ ~clash IN
        /\ Fault(ok)
        /\ options' = IF good THEN options \cup rows ELSE options
        /\ mgr' = [mgr EXCEPT ![m] =
                     IF good THEN [@ EXCEPT !.pc = "complete_status"]
                     ELSE Raised([@ EXCEPT !.opts = <<>>])]
    /\ UNCHANGED <<chapter, cache, relay, rc>>

\* complete_generation lines 206-209 and create_chapter_options (chapter.py
\* 68-95): the rows are added with computed primary keys and committed; a key
\* already in the table fails the commit, and none of the rows is kept.
create_chapter_options(m) ==
    /\ mgr[m].pc = "complete_options"
    /\ \E ok \in Outcomes :
        LET rows == OptionRows(mgr[m].opts)
            clash == \E a \in rows, b \in options : a.id = b.id
            good == ok /\ ~clash IN
        /\ Fault(ok)
        /\ options' = IF good THEN options \cup rows ELSE options
        /\ mgr' = [mgr EXCEPT ![m] =
                     IF good THEN [@ EXCEPT !.pc = "complete_status"]
                     ELSE Raised([@ EXCEPT !.opts = <<>>])]
    /\ UNCHANGED <<chapter, cache, relay, rc>>

\* complete_generation, lines 212-218: status COMPLETED; commit.
complete_generation_status(m) ==
    /\ mgr[m].pc = "complete_status"
    /\ \E ok \in Outcomes :
        /\ Fault(ok)
        /\ chapter' = IF ok THEN update_chapter_status(chapter, COMPLETED, 0) ELSE chapter
        /\ mgr' = [mgr EXCEPT ![m] = IF ok THEN [@ EXCEPT !.pc = "complete_cache"] ELSE Raised(@)]
    /\ UNCHANGED <<options, cache, relay, rc>>

\* complete_generation, line 221: the cache entry is deleted.
complete_generation_cleanup(m) ==
    /\ mgr[m].pc = "complete_cache"
    /\ \E ok \in Outcomes :
        /\ Fault(ok)
        /\ cache' = IF ok THEN CacheDelete ELSE cache
        /\ mgr' = [mgr EXCEPT ![m] =
                     IF ok THEN Finished([@ EXCEPT !.term_done = TRUE]) ELSE Raised(@)]
    /\ UNCHANGED <<chapter, options, relay, rc>>

\* fail_generation without the try around the status write: a failure of the
\* write ends the method before the cache delete.
fail_generation_raising(m) ==
    /\ \/ mgr[m].pc = "fail_status"
       \/ mgr[m].driver = "direct" /\ mgr[m].pc = "ready"
    /\ IF ~mgr[m].started
       THEN /\ mgr' = [mgr EXCEPT ![m].raised = FALSE]
            /\ UNCHANGED <<chapter, faults>>
       ELSE \E ok \in Outcomes :
            /\ Fault(ok)
            /\ chapter' = IF ok THEN update_chapter_status(chapter, FAILED, 0) ELSE chapter
            /\ mgr' = [mgr EXCEPT ![m] =
                         IF ok THEN [@ EXCEPT !.pc = "fail_cache", !.raised = FALSE]
                         ELSE IF @.driver = "direct" THEN [@ EXCEPT !.raised = TRUE]
                         ELSE [@ EXCEPT !.pc = "done"]]
    /\ UNCHANGED <<options, cache, relay, rc>>

\* fail_generation, lines 235-247, called by the except clause of the task or
\* by a direct caller: nothing when the generation was not started; else
\* status FAILED and commit, where a failure of the write is logged and the
\* method goes on.
fail_generation(m) ==
    /\ \/ mgr[m].pc = "fail_status"
       \/ mgr[m].driver = "direct" /\ mgr[m].pc = "ready"
    /\ IF ~mgr[m].started
       THEN /\ mgr' = [mgr EXCEPT ![m].raised = FALSE]
            /\ UNCHANGED <<chapter, faults>>
       ELSE \E ok \in Outcomes :
            /\ Fault(ok)
            /\ chapter' = IF ok THEN update_chapter_status(chapter, FAILED, 0) ELSE chapter
            /\ mgr' = [mgr EXCEPT ![m] = [@ EXCEPT !.pc = "fail_cache", !.raised = FALSE]]
    /\ UNCHANGED <<options, cache, relay, rc>>

\* fail_generation, line 250: the cache entry is deleted.  When the delete
\* raises, the endpoint and the wrapper log it (cleanup_error) and go on.
fail_generation_cleanup(m) ==
    /\ mgr[m].pc = "fail_cache"
    /\ \E ok \in Outcomes :
        /\ Fault(ok)
        /\ cache' = IF ok THEN CacheDelete ELSE cache
        /\ mgr' = [mgr EXCEPT ![m] =
                     IF @.driver = "direct"
                     THEN [@ EXCEPT !.pc = "ready", !.raised = ~ok,
                                    !.term_done = @ \/ ok]
                     ELSE Reraised([@ EXCEPT !.term_done = @ \/ ok], ok)]
    /\ UNCHANGED <<chapter, options, relay, rc>>

\* The producer yields an error event.  The background task raises on it
\* (chapter_generator.py 516-517); the streaming endpoint matches none of its
\* branches and passes the event on (chapters.py 146), and the producer ends.
producer_error(m) ==
    /\ mgr[m].driver # "direct" /\ mgr[m].pc = "loop"
    /\ LET g == [mgr[m] EXCEPT !.producer_failed = @ \/ Len(mgr[m].content_buffer) > 0] IN
       mgr' = [mgr EXCEPT ![m] =
                 IF g.driver = "background" THEN Raised(g)
                 ELSE [g EXCEPT !.pc = "done", !.exit = "returned"]]
    /\ UNCHANGED <<chapter, options, cache, relay, rc, faults>>

\* An exception is raised in the body of the producer loop.
producer_raise(m) ==
    /\ mgr[m].driver # "direct" /\ mgr[m].pc = "loop"
    /\ mgr' = [mgr EXCEPT ![m] =
                 Raised([@ EXCEPT !.producer_failed = @ \/ Len(mgr[m].content_buffer) > 0])]
    /\ UNCHANGED <<chapter, options, cache, relay, rc, faults>>

\* The producer ends with neither a completion payload nor an error event
\* (kimi.py 186: nothing accumulated).
producer_end(m) ==
    /\ mgr[m].driver # "direct" /\ mgr[m].pc = "loop"
    /\ mgr' = [mgr EXCEPT ![m] = [@ EXCEPT !.pc = "done", !.exit = "returned"]]
    /\ UNCHANGED <<chapter, options, cache, relay, rc, faults>>

\* The task is cancelled, or the client disconnects and the streaming
\* generator is closed: CancelledError and GeneratorExit are not Exceptions,
\* so neither except clause runs.
cancel(m) ==
    /\ mgr[m].driver # "direct" /\ mgr[m].pc \notin {"off", "done"}
    /\ mgr' = [mgr EXCEPT ![m] = [@ EXCEPT !.pc = "done", !.exit = "cancelled"]]
    /\ UNCHANGED <<chapter, options, cache, relay, rc, faults>>

ManagerStep(m) ==
    \/ summary_failed(m)
    \/ start_generation(m)
    \/ start_generation_title(m)
    \/ start_generation_status(m)
    \/ sync_interval_elapsed(m)
    \/ append_chunk(m)
    \/ sync_to_postgresql(m)
    \/ complete_generation(m)
    \/ create_chapter_options(m)
    \/ complete_generation_status(m)
    \/ complete_generation_cleanup(m)
    \/ fail_generation(m)
    \/ fail_generation_cleanup(m)
    \/ producer_error(m)
    \/ producer_raise(m)
    \/ producer_end(m)
    \/ cancel(m)

NextManagers == \E m \in Managers : ManagerStep(m)

\* One manager under any caller, no relay.
InitManagers == InitWith({1}, Drivers, {}, {0}, {0}, 0)

SpecManagers == InitManagers /\ [][NextManagers]_vars


\* ------------------------------------------------------------------ relay

\* The generator yields a terminal event and ends.
Emit(v, kind) == [v EXCEPT !.pc = "done", !.terminal = kind, !.terminals = @ + 1]

\* The generator ends on an exception it does not catch: no event.
Propagate(v) == [v EXCEPT !.pc = "done", !.terminal = "raised"]

\* stream_to_client, lines 283-317: the first read of the chapter, outside
\* the try block.
stream_to_client(r) ==
    /\ relay[r].pc = "init"
    /\ \E ok \in Outcomes :
        /\ Fault(ok)
        /\ relay' = [relay EXCEPT ![r] =
                       IF ~ok THEN Propagate(@)
                       ELSE IF chapter.status = FAILED THEN Emit(@, "failed")
                       ELSE IF chapter.status = COMPLETED
                            THEN [@ EXCEPT !.pc = "load_options",
                                           !.complete_content = chapter.content]
                       ELSE [@ EXCEPT !.pc = "poll_cache", !.polled = TRUE]]
    /\ UNCHANGED <<chapter, options, cache, mgr, rc>>

\* poll_cache with the whole cache content sent as the delta (the slice at
\* last_content_length dropped).
poll_cache_resend(r) ==
    /\ relay[r].pc = "poll_cache"
    /\ \E ok \in Outcomes :
        LET v == relay[r]
            current_length == Len(cache.content)
            summary == cache.title # "" /\ ~v.title_sent
            grown == current_length > v.last_content_length
            incremental == cache.content IN
        /\ Fault(ok)
        /\ relay' = [relay EXCEPT ![r] =
                       IF ~ok THEN Emit(v, "exception")
                       ELSE IF ~cache.present
                            THEN [v EXCEPT !.pc = "poll_status",
                                           !.idle = Min(@ + 1, MAX_NO_UPDATE + 1)]
                       ELSE [v EXCEPT
                               !.pc = "poll_status",
                               !.last_read = cache.content,
                               !.title_sent = @ \/ summary,
                               !.summaries = IF summary THEN @ + 1 ELSE @,
                               !.sent = IF grown THEN @ \o incremental ELSE @,
                               !.last_content_length = IF grown THEN current_length ELSE @,
                               !.no_update_count = IF grown THEN 0 ELSE @ + 1,
                               !.idle = IF grown THEN 0 ELSE Min(@ + 1, MAX_NO_UPDATE + 1)]]
    /\ UNCHANGED <<chapter, options, cache, mgr, rc>>

\* poll_cache without the title_sent flag: the summary is sent on every poll
\* that reads a title.
poll_cache_resummarise(r) ==
    /\ relay[r].pc = "poll_cache"
    /\ \E ok \in Outcomes :
        LET v == relay[r]
            current_length == Len(cache.content)
            summary == cache.title # ""
            grown == current_length > v.last_content_length
            incremental == Slice(cache.content, v.last_content_length) IN
        /\ Fault(ok)
        /\ relay' = [relay EXCEPT ![r] =
                       IF ~ok THEN Emit(v, "exception")
                       ELSE IF ~cache.present
                            THEN [v EXCEPT !.pc = "poll_status",
                                           !.idle = Min(@ + 1, MAX_NO_UPDATE + 1)]
                       ELSE [v EXCEPT
                               !.pc = "poll_status",
                               !.last_read = cache.content,
                               !.title_sent = @ \/ summary,
                               !.summaries = IF summary THEN @ + 1 ELSE @,
                               !.sent = IF grown THEN @ \o incremental ELSE @,
                               !.last_content_length = IF grown THEN current_length ELSE @,
                               !.no_update_count = IF grown THEN 0 ELSE @ + 1,
                               !.idle = IF grown THEN 0 ELSE Min(@ + 1, MAX_NO_UPDATE + 1)]]
    /\ UNCHANGED <<chapter, options, cache, mgr, rc>>

\* The body of one poll up to the cache read, lines 330-354.
poll_cache(r) ==
    /\ relay[r].pc = "poll_cache"
    /\ \E ok \in Outcomes :
        LET v == relay[r]
            current_length == Len(cache.content)
            summary == cache.title # "" /\ ~v.title_sent
            grown == current_length > v.last_content_length
            incremental == Slice(cache.content, v.last_content_length) IN
        /\ Fault(ok)
        /\ relay' = [relay EXCEPT ![r] =
                       IF ~ok THEN Emit(v, "exception")
                       ELSE IF ~cache.present
                            THEN [v EXCEPT !.pc = "poll_status",
                                           !.idle = Min(@ + 1, MAX_NO_UPDATE + 1)]
                       ELSE [v EXCEPT
                               !.pc = "poll_status",
                               !.last_read = cache.content,
                               !.title_sent = @ \/ summary,
                               !.summaries = IF summary THEN @ + 1 ELSE @,
                               !.sent = IF grown THEN @ \o incremental ELSE @,
                               !.last_content_length = IF grown THEN current_length ELSE @,
                               !.no_update_count = IF grown THEN 0 ELSE @ + 1,
                               !.idle = IF grown THEN 0 ELSE Min(@ + 1, MAX_NO_UPDATE + 1)]]
    /\ UNCHANGED <<chapter, options, cache, mgr, rc>>

\* The rest of the poll, lines 357-394: the row is refreshed, then the status
\* and the timeout are checked, then the generator sleeps.
poll_status(r) ==
    /\ relay[r].pc = "poll_status"
    /\ \E ok \in Outcomes :
        /\ Fault(ok)
        /\ relay' = [relay EXCEPT ![r] =
                       IF ~ok THEN Emit(@, "exception")
                       ELSE IF chapter.status = COMPLETED
                            THEN [@ EXCEPT !.pc = "load_options",
                                           !.complete_content = chapter.content]
                       ELSE IF chapter.status = FAILED THEN Emit(@, "failed")
                       ELSE IF @.no_update_count >= MAX_NO_UPDATE THEN Emit(@, "timeout")
                       ELSE [@ EXCEPT !.pc = "poll_cache"]]
    /\ UNCHANGED <<chapter, options, cache, mgr, rc>>

\* load_options clearing the cache entry once it has sent the complete event.
load_options_cleanup(r) ==
    /\ relay[r].pc = "load_options"
    /\ \E ok \in Outcomes :
        /\ Fault(ok)
        /\ relay' = [relay EXCEPT ![r] =
                       IF ok THEN Emit([@ EXCEPT !.complete_options = options], "complete")
                       ELSE IF @.polled THEN Emit(@, "exception")
                       ELSE Propagate(@)]
    /\ cache' = CacheDelete
    /\ UNCHANGED <<chapter, options, mgr, rc>>

\* db.refresh(chapter, ["options"]) and the complete event: line 299-314
\* before the loop (outside the try block), lines 364-379 inside it.
load_options(r) ==
    /\ relay[r].pc = "load_options"
    /\ \E ok \in Outcomes :
        /\ Fault(ok)
        /\ relay' = [relay EXCEPT ![r] =
                       IF ok THEN Emit([@ EXCEPT !.complete_options = options], "complete")
                       ELSE IF @.polled THEN Emit(@, "exception")
                       ELSE Propagate(@)]
    /\ UNCHANGED <<chapter, options, cache, mgr, rc>>

RelayStep(r) ==
    \/ stream_to_client(r)
    \/ poll_cache(r)
    \/ poll_status(r)
    \/ load_options(r)

NextRelays == \E r \in Relays : RelayStep(r)

Next == NextManagers \/ NextRelays

Spec == Init /\ [][Next]_vars


\* One generating task and two relays of the same chapter; Redis and
\* PostgreSQL do not fail.
InitRelays == InitWith({1}, Tasks, Relays, {0}, {0}, MaxFaults)

SpecRelays == InitRelays /\ [][Next]_vars

\* Two background tasks given the same chapter id, each with its own manager
\* (the streaming endpoint inserts a new row per request, so two of its
\* generators never share a chapter); Redis and PostgreSQL do not fail.
InitManagers2 == InitWith(Managers, {"background"}, {}, {0}, {0}, MaxFaults)

SpecManagers2 == InitManagers2 /\ [][NextManagers]_vars


\* -------------------------------------------------------------- reconnect

\* [diff_content[i:i+n] for i in range(0, len(diff_content), n)]
RECURSIVE Chunked(_, _)
Chunked(diff_content, n) ==
    IF Len(diff_content) = 0 THEN <<>>
    ELSE <<SubSeq(diff_content, 1, Min(n, Len(diff_content)))>>
         \o Chunked(Slice(diff_content, Min(n, Len(diff_content))), n)

\* The texts of a sequence of content events, joined.
RECURSIVE Joined(_)
Joined(chunks) ==
    IF Len(chunks) = 0 THEN <<>> ELSE Head(chunks) \o Joined(Tail(chunks))

\* The generator yields an error event and ends (both except clauses, lines
\* 465-469, and the FAILED branches).
Rejected(v, error) == [v EXCEPT !.pc = "done", !.outcome = "error", !.error = error]

\* Diffed with the difference taken from the start of the content (the
\* sent_length offset dropped).
Diffed_from_start(v) ==
    IF v.sent_length >= v.current_length
    THEN [v EXCEPT !.pc = "status", !.diff = FALSE]
    ELSE [v EXCEPT !.pc = "status", !.diff = TRUE,
                   !.chunks = Chunked(v.current_content, chunk_size)]

\* Lines 400-431: nothing new when sent_length >= current_length; else the
\* difference is sent in chunks of chunk_size.
Diffed(v) ==
    IF v.sent_length >= v.current_length
    THEN [v EXCEPT !.pc = "status", !.diff = FALSE]
    ELSE [v EXCEPT !.pc = "status", !.diff = TRUE,
                   !.chunks = Chunked(Slice(v.current_content, v.sent_length), chunk_size)]

\* Lines 410-417 and 440-463: the last event by chapter_status.
Decided(v, chapter_status) ==
    IF chapter_status = COMPLETED
    THEN IF v.diff THEN [v EXCEPT !.pc = "options"]
         ELSE [v EXCEPT !.pc = "done", !.outcome = "complete"]
    ELSE IF chapter_status = GENERATING
         THEN [v EXCEPT !.pc = "done", !.outcome = "generating"]
    ELSE Rejected(v, "failed")

\* The resume token of a session exists once its start_generation has
\* returned: the endpoint creates it right after (chapters.py 107-116).
Issued(session_id) == session_id \in Managers /\ mgr[session_id].start_done

\* reconnect_stream, lines 357-374: the cache read; on a hit the content, its
\* length and the session check come from the entry.
reconnect_stream(c) ==
    /\ rc[c].pc = "init"
    /\ Issued(rc[c].token_session_id)
    /\ \E ok \in Outcomes :
        LET v == [rc[c] EXCEPT !.current_content = cache.content,
                               !.current_length = cache.content_length,
                               !.current_session = cache.session_id,
                               !.source = "cache"] IN
        /\ Fault(ok)
        /\ rc' = [rc EXCEPT ![c] =
                    IF ~ok THEN Rejected(@, "exception")
                    ELSE IF ~cache.present THEN [@ EXCEPT !.pc = "read_store"]
                    ELSE IF cache.session_id # v.token_session_id THEN Rejected(v, "session")
                    ELSE Diffed(v)]
    /\ UNCHANGED <<chapter, options, cache, mgr, relay>>

\* reconnect_read_store with the comparison of the row's session_id with the
\* token's dropped.
reconnect_read_store_unchecked(c) ==
    /\ rc[c].pc = "read_store"
    /\ \E ok \in Outcomes :
        LET v == [rc[c] EXCEPT !.current_content = chapter.content,
                               !.current_length = chapter.content_length,
                               !.current_session = chapter.session_id,
                               !.source = "store"] IN
        /\ Fault(ok)
        /\ rc' = [rc EXCEPT ![c] = IF ~ok THEN Rejected(@, "exception") ELSE Diffed(v)]
    /\ UNCHANGED <<chapter, options, cache, mgr, relay>>

\* reconnect_stream, lines 376-397: the cache missed, the row is read.
reconnect_read_store(c) ==
    /\ rc[c].pc = "read_store"
    /\ \E ok \in Outcomes :
        LET v == [rc[c] EXCEPT !.current_content = chapter.content,
                               !.current_length = chapter.content_length,
                               !.current_session = chapter.session_id,
                               !.source = "store"] IN
        /\ Fault(ok)
        /\ rc' = [rc EXCEPT ![c] =
                    IF ~ok THEN Rejected(@, "exception")
                    ELSE IF chapter.session_id # 0 /\ chapter.session_id # v.token_session_id
                         THEN Rejected(v, "session")
                    ELSE Diffed(v)]
    /\ UNCHANGED <<chapter, options, cache, mgr, relay>>

\* reconnect_stream, lines 405 and 434: ChapterCacheService.get_status.
reconnect_status(c) ==
    /\ rc[c].pc = "status"
    /\ \E ok \in Outcomes :
        /\ Fault(ok)
        /\ rc' = [rc EXCEPT ![c] =
                    IF ~ok THEN Rejected(@, "exception")
                    ELSE IF cache.status = "" THEN [@ EXCEPT !.pc = "status_store"]
                    ELSE Decided(@, cache.status)]
    /\ UNCHANGED <<chapter, options, cache, mgr, relay>>

\* reconnect_stream, lines 406-410 and 435-439: no status flag, the row's
\* status is read.
reconnect_status_store(c) ==
    /\ rc[c].pc = "status_store"
    /\ \E ok \in Outcomes :
        /\ Fault(ok)
        /\ rc' = [rc EXCEPT ![c] =
                    IF ~ok THEN Rejected(@, "exception") ELSE Decided(@, chapter.status)]
    /\ UNCHANGED <<chapter, options, cache, mgr, relay>>

\* reconnect_stream, lines 441-454: the row is read again for its options and
\* the complete event carries current_content.  The list of options reads
\* opt.text, opt.impact_hint and opt.tags, which the Option model
\* (models/option.py 8-30) does not have: with any option row the
\* AttributeError reaches the except clause.
reconnect_options(c) ==
    /\ rc[c].pc = "options"
    /\ \E ok \in Outcomes :
        /\ Fault(ok)
        /\ rc' = [rc EXCEPT ![c] =
                    IF ~ok \/ options # {} THEN Rejected(@, "exception")
                    ELSE [@ EXCEPT !.pc = "done", !.outcome = "complete",
                                   !.complete_content = rc[c].current_content,
                                   !.complete_options = options]]
    /\ UNCHANGED <<chapter, options, cache, mgr, relay>>

ReconnectStep(c) ==
    \/ reconnect_stream(c)
    \/ reconnect_read_store(c)
    \/ reconnect_status(c)
    \/ reconnect_status_store(c)
    \/ reconnect_options(c)

NextReconnects == \E c \in Reconnects : ReconnectStep(c)

NextResume == NextManagers \/ NextReconnects

\* One generating task and one reconnect with a resume token of its session.
InitResume == InitWith({1}, Tasks, {}, {1}, 0..MaxLen, 0)

SpecResume == InitResume /\ [][NextResume]_vars

\* A further background task is created for the chapter, with a manager and
\* a session id of its own, once the tasks before it have ended.
new_generation(m) ==
    /\ mgr[m].pc = "off"
    /\ \A o \in Managers \ {m} : mgr[o].pc = "done"
    /\ mgr' = [mgr EXCEPT ![m] = NewManager("background", "init")]
    /\ UNCHANGED <<chapter, options, cache, relay, rc, faults>>

\* Two background tasks given the same chapter id, one after the other, and
\* one reconnect with a resume token of the first session; Redis and
\* PostgreSQL do not fail.
InitResume2 == InitWith({1}, {"background"}, {}, {1}, {0}, MaxFaults)

NextResume2 ==
    \/ NextManagers
    \/ NextReconnects
    \/ \E m \in Managers : new_generation(m)

SpecResume2 == InitResume2 /\ [][NextResume2]_vars


\* ---------------------------------------------------------------- readers

NextReaders == NextManagers \/ NextRelays \/ NextReconnects

\* One generating task, one relay and one reconnect with the token of the
\* task's session; at most one operation fails.
InitReaders == InitWith({1}, Tasks, {1}, {1}, {0}, MaxFaults - 1)

SpecReaders == InitReaders /\ [][NextReaders]_vars


\* --------------------------------------------------------------- eviction

\* Redis drops the chapter's keys (eviction, restart): the next
\* get_generating_content finds no data and returns None (chapter_cache.py
\* 92-95), get_status likewise (142-144).
cache_evicted ==
    /\ cache.present
    /\ cache' = AbsentEntry
    /\ UNCHANGED <<chapter, options, mgr, relay, rc, faults>>

NextEvict == NextManagers \/ NextRelays \/ cache_evicted

\* One generating task and one relay; Redis may drop the entry; no operation
\* fails.
InitEvict == InitWith({1}, Tasks, {1}, {0}, {0}, MaxFaults)

SpecEvict == InitEvict /\ [][NextEvict]_vars


\* ----------------------------------------------------------- resume token

\* A reconnect request as it arrives.
NewRequest(resume_token, current_user_id, novel_id, now) ==
    [NewReconnect("request", 0, 0) EXCEPT
        !.request = [resume_token |-> resume_token, current_user_id |-> current_user_id,
                     novel_id |-> novel_id, now |-> now]]

\* raise HTTPException(status_code) before the StreamingResponse is built.
HttpError(v, status_code) == [v EXCEPT !.pc = "done", !.http = status_code]

\* reconnect_chapter_generation, lines 324-350: the token checks.
reconnect_chapter_generation(c) ==
    /\ rc[c].pc = "request"
    /\ LET payload == verify_resume_token(rc[c].request.resume_token, rc[c].request.now) IN
       rc' = [rc EXCEPT ![c] =
                IF payload = None THEN HttpError(@, 401)
                ELSE IF payload.user_id # @.request.current_user_id THEN HttpError(@, 403)
                ELSE IF payload.novel_id # @.request.novel_id THEN HttpError(@, 400)
                ELSE [@ EXCEPT !.pc = "init", !.http = 200,
                               !.token_session_id = payload.session_id,
                               !.sent_length = payload.sent_length]]
    /\ UNCHANGED <<chapter, options, cache, mgr, relay, faults>>

\* The client presents the token it received to the reconnect endpoint, as
\* user 1 for novel 1, at any of the times.
client_reconnects(c) ==
    /\ rc[c].pc = "idle"
    /\ \E m \in Managers, now \in Times :
        /\ mgr[m].resume_token # None
        /\ rc' = [rc EXCEPT ![c] = NewRequest(mgr[m].resume_token, 1, 1, now)]
    /\ UNCHANGED <<chapter, options, cache, mgr, relay, faults>>

NextToken ==
    \/ NextManagers
    \/ NextReconnects
    \/ \E c \in Reconnects : reconnect_chapter_generation(c)

\* One background task and one reconnect request of user 1 for novel 1 with
\* any of the tokens, at any of the times; Redis and PostgreSQL do not fail.
InitToken ==
    /\ InitBase({1}, {"background"}, {}, MaxFaults)
    /\ rc \in [Reconnects -> {NewRequest(t, 1, 1, now) : t \in Tokens, now \in Times}]

SpecToken == InitToken /\ [][NextToken]_vars

NextIssued ==
    \/ NextToken
    \/ \E c \in Reconnects : client_reconnects(c)

\* One streaming task and a client that reconnects with the token the
\* endpoint sent it.
InitIssued ==
    /\ InitBase({1}, {"stream"}, {}, 0)
    /\ rc = [c \in Reconnects |-> NewReconnect("idle", 0, 0)]

SpecIssued == InitIssued /\ [][NextIssued]_vars


\* ----------------------------------------------------------------- claims

\* The row's status is terminal and was written by a generation session.
TerminalSession == chapter.session_id # 0 /\ chapter.status \in Terminal

\* C1: once start() has been called and the generating task is no longer
\* running (it returned, raised or failed, also when fail()'s own status
\* write failed), the chapter is not left with durable status GENERATING and
\* no cache entry.
C1_NoOrphanedGeneration ==
    \A m \in Managers :
        (mgr[m].started /\ mgr[m].pc = "done")
            => ~(chapter.status = GENERATING /\ ~cache.present)

\* C2: a relay that has seen MAX_NO_UPDATE polls in a row without a content
\* delta (entry present without growth, or entry absent) while the status
\* stayed GENERATING has emitted the timeout error: it does not go on polling.
C2_RelayTimesOut ==
    \A r \in Relays : relay[r].pc = "poll_cache" => relay[r].idle < MAX_NO_UPDATE

\* C3: when the producer failed after start() and after some chunks were
\* appended (it raised, or yielded an error event), on either task, and the
\* task has ended without being cancelled and without any Redis or PostgreSQL
\* failure, the durable status is FAILED and the cache entry is absent.
C3_ProducerFailureFails ==
    \A m \in Managers :
        (mgr[m].producer_failed /\ mgr[m].pc = "done" /\ mgr[m].exit # "cancelled"
            /\ faults = 0)
            => (chapter.status = FAILED /\ ~cache.present)

\* C4: a task whose start() returned has, when it has ended (cancelled, or
\* after the producer ended with no completion payload, or otherwise), left
\* the durable status COMPLETED or FAILED; stated for runs in which Redis and
\* PostgreSQL never fail.
C4_StartedEndsTerminal ==
    \A m \in Managers :
        (mgr[m].start_done /\ mgr[m].pc = "done" /\ faults = 0)
            => chapter.status \in Terminal

\* C5: after complete() or fail() has returned on a started session, the
\* cache holds no entry for the chapter, whatever operations of that session
\* follow; stated for runs in which Redis and PostgreSQL never fail.
C5_CacheAbsentAfterTerminal ==
    \A m \in Managers : (mgr[m].term_done /\ faults = 0) => ~cache.present

\* C6: once the durable status of a generation session is COMPLETED or FAILED,
\* no later step changes it.
C6_TerminalIsFinal ==
    [][TerminalSession => chapter'.status = chapter.status]_vars

\* C7: a step of complete() or fail() taken while the session's durable status
\* is already COMPLETED or FAILED leaves the committed content, content_length
\* and option rows unchanged; stated for runs in which Redis and PostgreSQL
\* never fail.
C7_TerminalIdempotence ==
    [][\A m \in Managers :
           (/\ TerminalSession
            /\ faults' = 0
            /\ \/ mgr[m].pc = "ready" /\ mgr'[m].pc = "complete_options"
               \/ mgr[m].pc \in {"complete_options", "complete_status", "complete_cache",
                                 "fail_status", "fail_cache"})
           => /\ chapter'.content = chapter.content
              /\ chapter'.content_length = chapter.content_length
              /\ options' = options]_vars

\* A session is active: its start() returned and its task has not ended.
Active(m) == mgr[m].start_done /\ mgr[m].pc # "done"

\* C8: at no time are two sessions active for one chapter: of two start()
\* calls only one proceeds.
C8_SingleActiveSession == Cardinality({m \in Managers : Active(m)}) <= 1

\* C9: for each relay, the concatenation of the content deltas it has emitted
\* is the first last_content_length characters of the cache content it last
\* read; last_content_length never decreases and grows by exactly the length
\* of each emitted delta.
C9_RelayCursor ==
    /\ [](\A r \in Relays :
            /\ Len(relay[r].sent) = relay[r].last_content_length
            /\ relay[r].last_content_length <= Len(relay[r].last_read)
            /\ relay[r].sent = SubSeq(relay[r].last_read, 1, relay[r].last_content_length))
    /\ [][\A r \in Relays :
            /\ relay'[r].last_content_length >= relay[r].last_content_length
            /\ IsPrefix(relay[r].sent, relay'[r].sent)
            /\ Len(relay'[r].sent) - Len(relay[r].sent)
                 = relay'[r].last_content_length - relay[r].last_content_length]_vars

\* Both relays have emitted deltas and stand at different cursors.
C9_Witness ==
    /\ relay[1].sent = Chunk(0, 3)
    /\ relay[2].sent = Chunk(0, 1)
    /\ relay[2].pc = "poll_cache"

\* C10: a relay that polled the chapter while it was generating and then
\* emitted complete has emitted, as content deltas, exactly the final content
\* its complete event carries; stated for runs without Redis or PostgreSQL
\* failures in which the final content is exactly the text that was appended
\* chunk by chunk.
C10_DeltasCoverFinalContent ==
    \A r \in Relays, m \in Managers :
        (/\ relay[r].terminal = "complete" /\ relay[r].polled
         /\ mgr[m].start_done /\ mgr[m].appended = relay[r].complete_content
         /\ faults = 0)
            => relay[r].sent = relay[r].complete_content

\* The reconnect has read the current content and accepted the token.
Accepted(c) == rc[c].source # "none" /\ rc[c].error # "session"

C13_ResumeCompleteIsFinal ==
    \A c \in Reconnects :
        (rc[c].outcome = "complete" /\ rc[c].diff /\ faults = 0)
            => /\ rc[c].complete_content = chapter.content
               /\ rc[c].complete_options = options
               /\ Slice(chapter.content, rc[c].sent_length) = Joined(rc[c].chunks)

\* The task of manager m called complete_generation, which returned normally,
\* and has ended; content_buffer and opts are the arguments of that call.
CompletedNormally(m) ==
    mgr[m].pc = "done" /\ mgr[m].exit = "returned" /\ mgr[m].term_done

\* C14: after start(), any number of append_chunk calls and a
\* complete(final_content, options) that returned normally, the row has
\* content = final_content, content_length = len(final_content) and status
\* COMPLETED, the option rows are exactly those of options with option_order
\* 1..N in the given order, and the cache entry is absent.
C14_CompleteCommitsAll ==
    \A m \in Managers :
        CompletedNormally(m)
            => /\ chapter.content = mgr[m].content_buffer
               /\ chapter.content_length = Len(mgr[m].content_buffer)
               /\ chapter.status = COMPLETED
               /\ options = OptionRows(mgr[m].opts)
               /\ Cardinality(options) = Len(mgr[m].opts)
               /\ ~cache.present

\* Two chunks were appended and the completion carried one more character
\* and two options.
C14_Witness ==
    /\ CompletedNormally(1)
    /\ mgr[1].appended = Chunk(0, 2) /\ mgr[1].content_buffer = Chunk(0, 3)
    /\ mgr[1].opts = <<"y", "x">>

\* The row's status COMPLETED was written by complete_generation (the column
\* default COMPLETED stands only while the row has no session).
CompletedBySession == chapter.status = COMPLETED /\ chapter.session_id # 0

\* C15: whenever the row's status is COMPLETED written by complete(), the
\* final content of that call and all of its option rows are committed,
\* whichever Redis or PostgreSQL operations failed.
C15_CompletedHasContentAndOptions ==
    CompletedBySession
        => \E m \in Managers :
            /\ chapter.session_id = m
            /\ chapter.content = mgr[m].content_buffer
            /\ chapter.content_length = Len(mgr[m].content_buffer)
            /\ options = OptionRows(mgr[m].opts)

\* COMPLETED and two option rows are committed and the cache delete that
\* follows has failed.
C15_Witness ==
    /\ CompletedBySession /\ Cardinality(options) = 2
    /\ mgr[1].pc = "fail_status" /\ faults > 0

\* A Redis or PostgreSQL operation of manager m's task raises in this step.
OperationFails(m) == faults' = faults + 1 /\ mgr'[m].pc = "fail_status"

\* C16: option rows and the final content are committed both or neither: a
\* step in which the option creation of complete() fails does not leave the
\* row holding final_content (here a final_content that differs from the
\* text appended so far, so that only complete() can have written it), and a
\* step in which a write before the option creation fails leaves no option row.
C16_OptionsAtomicWithContent ==
    [][\A m \in Managers :
        /\ (mgr[m].pc = "complete_options" /\ OperationFails(m)
              /\ mgr[m].content_buffer # mgr[m].appended)
              => chapter'.content # mgr[m].content_buffer
        /\ (CanCall(m) /\ OperationFails(m)) => options' = {}]_vars

\* C17: while the row's status is GENERATING and the session's cache entry
\* exists, the row's content is a prefix of (or equal to) the cache entry's
\* content, in every state, those between the steps of complete() included.
C17_StoreNotNewerThanCache ==
    (chapter.status = GENERATING /\ cache.present
        /\ cache.session_id = chapter.session_id /\ faults = 0)
        => IsPrefix(chapter.content, cache.content)

\* The periodic flush of manager m's append_chunk fails in this step.
FlushFails(m) ==
    mgr[m].pc = "append_sync" /\ faults' = faults + 1 /\ mgr'[m] # mgr[m]

\* The call of manager m ends by raising: a direct caller receives the
\* exception, a task goes to its except clause.
Propagated(m) ==
    IF mgr[m].driver = "direct" THEN mgr'[m].pc = "ready" /\ mgr'[m].raised
    ELSE mgr'[m].pc = "fail_status" /\ mgr'[m].exit = "raised"

\* C18: when the periodic flush inside append_chunk fails, the error reaches
\* the caller, the cache entry holds the whole accumulated content with the
\* chunk just appended, neither the buffer nor the cache is rolled back, and
\* the last-flush time is not advanced (the flush stays due).
C18_FlushFailurePropagates ==
    [][\A m \in Managers :
        FlushFails(m)
            => /\ Propagated(m)
               /\ cache' = cache /\ cache.present
               /\ cache.content = mgr[m].content_buffer
               /\ mgr'[m].content_buffer = mgr[m].content_buffer
               /\ mgr'[m].content_length = Len(mgr[m].content_buffer)
               /\ mgr'[m].sync_due
               /\ chapter' = chapter]_vars

\* A direct caller's second append_chunk has raised from the flush: the cache
\* holds both chunks, the row none, and the flush is still due.
C18_Witness ==
    /\ mgr[1].driver = "direct" /\ mgr[1].pc = "ready" /\ mgr[1].raised
    /\ mgr[1].sync_due /\ faults = 1
    /\ mgr[1].appended = Chunk(0, 2) /\ mgr[1].content_buffer = Chunk(0, 2)
    /\ cache.present /\ cache.content = Chunk(0, 2)
    /\ chapter.content = Chunk(0, 1) /\ chapter.status = GENERATING

\* Manager m's fail_generation, on a started session, runs its status write
\* in this step.
FailStatusStep(m) == fail_generation(m) /\ mgr[m].started

\* Manager m's fail_generation runs its cache delete in this step.
FailDeleteStep(m) == fail_generation_cleanup(m)

\* C19: fail_generation on a started session goes on to the cache delete
\* whether its FAILED write succeeded or raised (the failure is not raised to
\* the caller), and the delete, unless Redis itself fails, leaves no cache
\* entry, so a started task that ended by raising, with no Redis failure in
\* its last step, has none; on a manager that was never started
\* fail_generation changes neither the cache nor the store.
C19_FailDeletesCache ==
    [][\A m \in Managers :
        /\ FailStatusStep(m)
              => /\ mgr'[m].pc = "fail_cache" /\ ~mgr'[m].raised
                 /\ chapter' = IF faults' = faults
                                THEN [chapter EXCEPT !.status = FAILED] ELSE chapter
                 /\ cache' = cache /\ options' = options
        /\ FailDeleteStep(m)
              => /\ chapter' = chapter /\ options' = options
                 /\ IF faults' = faults THEN ~cache'.present ELSE cache' = cache
        /\ (mgr[m].pc # "done" /\ mgr'[m].pc = "done" /\ mgr'[m].exit = "raised"
              /\ mgr'[m].started /\ faults' = faults)
              => ~cache'.present
        /\ (fail_generation(m) /\ ~mgr[m].started)
              => UNCHANGED <<chapter, options, cache, faults>>]_vars

\* The producer raised after a chunk, the FAILED write of fail_generation
\* raised, and the cache entry is gone all the same.
C19_Witness ==
    /\ mgr[1].driver = "background" /\ mgr[1].pc = "done" /\ mgr[1].exit = "raised"
    /\ mgr[1].start_done /\ mgr[1].term_done /\ mgr[1].appended = Chunk(0, 1)
    /\ chapter.status = GENERATING /\ chapter.session_id = 1 /\ faults = 1
    /\ ~cache.present

\* Manager m runs inside managed_stream_generation.
Wrapped(m) == mgr[m].driver = "background"

\* C20: inside managed_stream_generation, a failing Redis or PostgreSQL
\* operation or any other exception in the body is never swallowed; the
\* wrapper calls fail_generation (both of its steps, on a started session)
\* before the exception leaves the scope, and the exception that leaves is
\* the one raised in the body, also when fail_generation itself raised.
C20_WrapperReraisesOriginal ==
    [][\A m \in Managers : Wrapped(m) =>
        /\ (mgr[m].pc \notin {"fail_status", "fail_cache"}
              /\ faults' = faults + 1 /\ mgr'[m] # mgr[m])
              => /\ mgr'[m].exit = "raised"
                 /\ mgr'[m].pc = IF mgr'[m].started THEN "fail_status" ELSE "done"
        /\ (mgr[m].pc # "done" /\ mgr'[m].pc = "done" /\ mgr'[m].exit = "raised")
              => /\ mgr'[m].propagated = "original"
                 /\ mgr[m].started => mgr[m].pc = "fail_cache"
        /\ mgr'[m].exit # "raised" => mgr'[m].propagated = "none"]_vars

\* A background task whose body raised after start_generation: its
\* fail_generation wrote FAILED, the cache delete raised, and the exception of
\* the body left the wrapper.
C20_Witness ==
    /\ Wrapped(1) /\ mgr[1].pc = "done" /\ mgr[1].exit = "raised"
    /\ mgr[1].start_done /\ ~mgr[1].term_done /\ mgr[1].propagated = "original"
    /\ chapter.status = FAILED /\ cache.present /\ faults > 0

\* The token is one verify_resume_token accepts by the words of the contract:
\* good signature, not past its expiry, of type resume, all five fields.
ValidToken(token, now) ==
    /\ token.signed
    /\ "exp" \in DOMAIN token.payload => now <= token.payload.exp
    /\ "type" \in DOMAIN token.payload /\ token.payload.type = "resume"
    /\ required_fields \subseteq DOMAIN token.payload

\* The reconnect read nothing and produced no event.
NoStream(c) ==
    /\ rc[c].source = "none" /\ rc[c].outcome = "none" /\ rc[c].chunks = <<>>
    /\ rc[c].current_content = <<>>

\* C21: the token checks come before any read and any event: an invalid
\* token (bad signature, expired, not of type resume, a required field
\* missing) gives 401, a valid token of another user 403, a valid token of
\* another novel 400, and in each case nothing is read or streamed.
C21_TokenValidatedFirst ==
    \A c \in Reconnects :
        LET q == rc[c].request IN
        /\ rc[c].pc = "request" => NoStream(c) /\ rc[c].http = 0
        /\ (rc[c].pc \notin {"off", "request"} /\ q # <<>>)
             => IF ~ValidToken(q.resume_token, q.now)
                THEN rc[c].http = 401 /\ rc[c].pc = "done" /\ NoStream(c)
                ELSE IF q.resume_token.payload.user_id # q.current_user_id
                THEN rc[c].http = 403 /\ rc[c].pc = "done" /\ NoStream(c)
                ELSE IF q.resume_token.payload.novel_id # q.novel_id
                THEN rc[c].http = 400 /\ rc[c].pc = "done" /\ NoStream(c)
                ELSE rc[c].http = 200

\* A resume token with every field and a good signature but of another type
\* was refused with 401 while the chapter was generating with content cached.
C21_Witness ==
    /\ rc[1].http = 401 /\ rc[1].pc = "done"
    /\ rc[1].request.resume_token.signed
    /\ required_fields \subseteq DOMAIN rc[1].request.resume_token.payload
    /\ rc[1].request.resume_token.payload.type = "refresh"
    /\ rc[1].request.now = 0
    /\ cache.present /\ Len(cache.content) > 0

ClosingFor(chapter_status) ==
    IF chapter_status = COMPLETED THEN "complete"
    ELSE IF chapter_status = GENERATING THEN "generating" ELSE "error"

\* C23: the step in which a reconnect stream decides its closing event
\* chooses it by the row's status at that moment (COMPLETED complete,
\* GENERATING generating, FAILED error), the stream ends with it, and a token
\* whose sent_length equals the length of the content has received no content
\* event; here for the tokens the generate endpoint issues (sent_length 0)
\* and runs in which Redis and PostgreSQL never fail.
C23_ClosingEventByStatus ==
    [][\A c \in Reconnects : rc[c].sent_length = 0 =>
        /\ (rc[c].pc \in {"status", "status_store"} /\ rc'[c].pc \in {"options", "done"}
              /\ faults' = 0)
              => /\ IF rc'[c].pc = "options" THEN chapter.status = COMPLETED
                    ELSE rc'[c].outcome = ClosingFor(chapter.status)
                 /\ rc[c].sent_length = Len(rc[c].current_content)
                       => rc'[c].chunks = <<>>
        /\ (rc[c].pc = "options" /\ rc'[c].pc = "done" /\ faults' = 0)
              => rc'[c].outcome = ClosingFor(chapter.status)
        /\ rc[c].pc = "done" => rc'[c] = rc[c]]_vars

\* C24: a relay emits at most one summary event; it emits it in the first
\* poll that reads a cache entry with a non-empty title, before any of its
\* content events, and never again.
C24_SummaryOnce ==
    [][\A r \in Relays :
        /\ relay'[r].summaries <= 1
        /\ relay'[r].summaries > relay[r].summaries
              => /\ cache.present /\ cache.title # ""
                 /\ ~relay[r].title_sent /\ relay[r].sent = <<>>
        /\ (relay[r].pc = "poll_cache" /\ relay'[r].pc = "poll_status"
              /\ cache.present /\ cache.title # "")
              => relay'[r].summaries = 1
        /\ relay'[r].sent # <<>> => relay'[r].summaries = 1]_vars

\* Relay 1 has sent its summary and two characters and has polled again
\* without news; relay 2 has sent its own summary and no content yet.
C24_Witness ==
    /\ relay[1].summaries = 1 /\ relay[1].sent = Chunk(0, 2)
    /\ relay[1].no_update_count >= 1
    /\ relay[2].summaries = 1 /\ relay[2].sent = <<>>

\* An append_chunk call of manager m's task returns normally in this step.
AppendReturns(m) ==
    /\ mgr'[m].pc = "loop"
    /\ \/ mgr[m].pc = "append_sync"
       \/ mgr[m].pc = "loop" /\ mgr'[m].appended # mgr[m].appended

\* C25: in a session run by a task, when an append_chunk call returns the
\* cache entry holds the concatenation of all chunks appended so far, in
\* order, under the title start_generation set; and while the entry exists
\* its content only grows by a suffix.
C25_CacheIsFullAccumulation ==
    [][/\ \A m \in Managers :
            AppendReturns(m)
                => /\ cache'.present /\ cache'.session_id = m
                   /\ cache'.content = mgr'[m].appended
                   /\ cache'.title = mgr'[m].title
                   /\ mgr'[m].content_buffer = mgr'[m].appended
       /\ (cache.present /\ cache'.present) => IsPrefix(cache.content, cache'.content)]_vars

\* Three characters appended in at least two chunks; the last call has
\* returned and the cache holds all three.
C25_Witness ==
    /\ mgr[1].pc = "loop" /\ mgr[1].appended = Chunk(0, 3)
    /\ cache.present /\ cache.content = Chunk(0, 3) /\ cache.title = "T"

\* C26: a poll of a relay that finds no cache entry while the row's status is
\* GENERATING delivers the row's content beyond the relay's cursor.
C26_CacheMissFallsBack ==
    [][\A r \in Relays :
        (relay[r].pc = "poll_cache" /\ relay'[r].pc = "poll_status"
            /\ ~cache.present /\ chapter.status = GENERATING
            /\ Len(chapter.content) > relay[r].last_content_length)
            => relay'[r].sent
                 = relay[r].sent \o Slice(chapter.content, relay[r].last_content_length)]_vars

C28_ReadersNeverWrite ==
    [][/\ (relay' # relay \/ rc' # rc) => UNCHANGED <<chapter, options, cache>>
       /\ (chapter' # chapter \/ options' # options \/ cache' # cache)
            => mgr' # mgr /\ relay' = relay /\ rc' = rc]_vars

\* The relay has sent its complete event and the reconnect its closing event
\* for a chapter that is COMPLETED with its two option rows.
C28_Witness ==
    /\ relay[1].terminal = "complete" /\ relay[1].sent # <<>>
    /\ rc[1].pc = "done" /\ rc[1].chunks # <<>>
    /\ chapter.status = COMPLETED /\ chapter.content = Chunk(0, 2)
    /\ Cardinality(options) = 2 /\ ~cache.present

\* C29: a relay that has emitted a complete event did so for a chapter whose
\* COMPLETED status was committed by complete() (with the final content and
\* the options, C15), not for the row as create_chapter_with_summary leaves
\* it before start(); stated for runs in which Redis and PostgreSQL never fail.
C29_NoCompleteBeforeCompletion ==
    \A r \in Relays :
        (relay[r].terminal = "complete" /\ faults = 0) => CompletedBySession

====
